---- MODULE Spec2Model ----
(***************************************************************************)
(* Model of process_video (src/app/utils.py): the per-class greedy IoU     *)
(* tracker, the detection filter, the lane statistics and the density and  *)
(* confidence aggregation of the Traffic-Density-Analyzer.                 *)
(*                                                                         *)
(* Numbers: confidences and thresholds are integers in hundredths (0.6 is  *)
(* 60); an IoU is the exact fraction [n, d] = inter_area / union and is    *)
(* compared by cross-multiplication; a density is a fraction of 45ths.     *)
(* Python list indices are 0-based, sequences here are 1-based, so the     *)
(* code's best_j = -1 ("no detection") is j = 0 here.                      *)
(***************************************************************************)
EXTENDS Integers, Sequences, FiniteSets, TLC

VARIABLES
    input,                \* the video file and the sink: opens, sink_opens, fps, width, height, video
    conf_global,          \* keyword parameters of process_video
    motorcycle_conf,
    iou_thresh,
    pc,                   \* position in process_video
    error,                \* exception raised to the caller ("none" when none)
    results,              \* the returned record (NoResult when none)
    reads,                \* number of cap.read() calls made
    opens,                \* number of VideoCapture / VideoWriter constructions made
    fps, width, height,   \* stream properties read from the capture
    tracks,               \* per class: list of live tracks
    next_track_id,        \* per class: next identity
    unique_counts,        \* per class: confirmed tracks so far
    expired,              \* per class: the tracks the age filter dropped
    max_total_concurrent,
    density_series,
    accepted_conf_sum,
    accepted_conf_count,
    frame_count,
    frame_idx,
    lane_stats,
    boxes,                \* results[0].boxes: the detector's output on this frame
    frame_log,            \* the detector's output on every frame read so far
    alone,                \* per class: the store that class's accepted detections alone produce
    detections_by_class,  \* this frame's accepted detections
    total_this_frame,
    vi,                   \* position of the class loop in VehicleTypes
    ti,                   \* position of the greedy loop in tracks[vtype]
    used_det,             \* detections taken in this class step
    run,                  \* number of the call of process_video in progress
    first,                \* what the first call read and gave back (NoResult during it)
    iou_args,             \* _compute_iou called on its own: the two boxes
    iou_out,              \* and what it returned (NoResult before the call)
    web,                  \* process_file: stage, uploaded filename, result_path, stored result name
    output_path,          \* process_video's output_path
    sink_file             \* the path the VideoWriter was opened on (NoPath before)

vars == <<input, conf_global, motorcycle_conf, iou_thresh, pc, error, results,
          reads, opens, fps, width, height, tracks, next_track_id,
          unique_counts, expired, max_total_concurrent, density_series,
          accepted_conf_sum, accepted_conf_count, frame_count, frame_idx,
          lane_stats, boxes, frame_log, alone, detections_by_class, total_this_frame,
          vi, ti, used_det, run, first, iou_args, iou_out, web, output_path, sink_file>>

----------------------------------------------------------------------------
(* Program constants *)

TRACK_TIMEOUT == 30
CONFIRM_HITS == 3
MAX_VEHICLES_PER_LANE == 15
NUM_LANES == 3
DefaultConfGlobal == 60
DefaultMotorcycleConf == 75
DefaultIouThresh == 30
LowConfidenceBelow == 55

\* keys of vehicle_colors, in insertion order: the order of every class loop
VehicleTypes == <<"car", "truck", "bus", "motorcycle">>
VehicleTypeSet == {"car", "truck", "bus", "motorcycle"}

\* class_map: detector class id -> vehicle type
class_map == (2 :> "car") @@ (3 :> "motorcycle") @@ (5 :> "bus") @@ (7 :> "truck")

Lanes == <<"Left Lane", "Middle Lane", "Right Lane">>
LaneSet == {"Left Lane", "Middle Lane", "Right Lane"}

NoResult == [none |-> TRUE]

----------------------------------------------------------------------------
(* Helpers *)

Max2(a, b) == IF a >= b THEN a ELSE b
Min2(a, b) == IF a <= b THEN a ELSE b
Range(s) == {s[i] : i \in DOMAIN s}

RECURSIVE SumOver(_, _)
SumOver(f, S) ==
    IF S = {} THEN 0
    ELSE LET x == CHOOSE y \in S : TRUE IN f[x] + SumOver(f, S \ {x})

\* fractions [n, d] with d > 0
\* variant: an equal IoU replaces the best so far
FracGt_orEqual(a, b) == a.n * b.d >= b.n * a.d

FracGt(a, b) == a.n * b.d > b.n * a.d
FracGeqPct(a, p) == a.n * 100 >= p * a.d
FracZero == [n |-> 0, d |-> 1]

----------------------------------------------------------------------------
(* _compute_iou *)

\* variant: the intersection width and height are not clamped at 0
compute_iou_unclamped(box_a, box_b) ==
    LET inter_w == Min2(box_a[3], box_b[3]) - Max2(box_a[1], box_b[1])
        inter_h == Min2(box_a[4], box_b[4]) - Max2(box_a[2], box_b[2])
        inter_area == inter_w * inter_h
        area_a == Max2(0, box_a[3] - box_a[1]) * Max2(0, box_a[4] - box_a[2])
        area_b == Max2(0, box_b[3] - box_b[1]) * Max2(0, box_b[4] - box_b[2])
        union == area_a + area_b - inter_area
    IN  IF union > 0 THEN [n |-> inter_area, d |-> union] ELSE FracZero

compute_iou(box_a, box_b) ==
    LET ax1 == box_a[1]  ay1 == box_a[2]  ax2 == box_a[3]  ay2 == box_a[4]
        bx1 == box_b[1]  by1 == box_b[2]  bx2 == box_b[3]  by2 == box_b[4]
        inter_x1 == Max2(ax1, bx1)
        inter_y1 == Max2(ay1, by1)
        inter_x2 == Min2(ax2, bx2)
        inter_y2 == Min2(ay2, by2)
        inter_w == Max2(0, inter_x2 - inter_x1)
        inter_h == Max2(0, inter_y2 - inter_y1)
        inter_area == inter_w * inter_h
        area_a == Max2(0, ax2 - ax1) * Max2(0, ay2 - ay1)
        area_b == Max2(0, bx2 - bx1) * Max2(0, by2 - by1)
        union == area_a + area_b - inter_area
    IN  IF union > 0 THEN [n |-> inter_area, d |-> union] ELSE FracZero

----------------------------------------------------------------------------
(* Detection filter *)

\* the threshold a detection of this vehicle type must reach
ConfThreshold(vehicle_type, cg, mc) ==
    IF vehicle_type = "motorcycle" THEN mc ELSE cg

BoxArea(b) == Max2(1, (b[3] - b[1]) * (b[4] - b[2]))

\* box_area > 0.05 * frame_area
TooLarge(vehicle_type, b, frame_area) ==
    vehicle_type = "motorcycle" /\ BoxArea(b) * 100 > 5 * frame_area

\* variant: the confidence is not tested
Accepts_anyConf(d, cg, mc, frame_area) ==
    /\ d.cls \in DOMAIN class_map
    /\ ~ TooLarge(class_map[d.cls], d.xyxy, frame_area)

\* variant: a confidence equal to the threshold is dropped
Accepts_strict(d, cg, mc, frame_area) ==
    /\ d.cls \in DOMAIN class_map
    /\ ~ (d.conf <= ConfThreshold(class_map[d.cls], cg, mc))
    /\ ~ TooLarge(class_map[d.cls], d.xyxy, frame_area)

\* the detection reaches detections_by_class
Accepts(d, cg, mc, frame_area) ==
    /\ d.cls \in DOMAIN class_map
    /\ ~ (d.conf < ConfThreshold(class_map[d.cls], cg, mc))
    /\ ~ TooLarge(class_map[d.cls], d.xyxy, frame_area)

\* the accepted boxes of one class, in the order of the result list
Bucket(bs, vt, cg, mc, frame_area) ==
    LET kept == SelectSeq(bs, LAMBDA d : Accepts(d, cg, mc, frame_area) /\ class_map[d.cls] = vt)
    IN  [k \in 1..Len(kept) |-> [bbox |-> kept[k].xyxy, conf |-> kept[k].conf]]

Collate(bs, cg, mc, frame_area) ==
    [name \in VehicleTypeSet |-> Bucket(bs, name, cg, mc, frame_area)]

----------------------------------------------------------------------------
(* Track store and greedy matcher *)

\* variant: a track that is exactly TRACK_TIMEOUT frames old is dropped
IsFresh_strict(t, fidx) == fidx - t.last_seen < TRACK_TIMEOUT

\* the age filter keeps the track
IsFresh(t, fidx) == fidx - t.last_seen <= TRACK_TIMEOUT

FreshTracks(tlist, fidx) == SelectSeq(tlist, LAMBDA t : IsFresh(t, fidx))

\* one pass of the inner loop: detection j replaces the best so far when it
\* is unused and its IoU is strictly greater
ScanDet(bbox, ds, used, best, j) ==
    IF j \in used THEN best
    ELSE LET iou == compute_iou(bbox, ds[j].bbox)
         IN  IF FracGt(iou, best.iou) THEN [j |-> j, iou |-> iou] ELSE best

\* inner loop over the detections lo..hi, in order: first-found strict maximum
\* among the unused. The range is walked first half before second half
\* (half = half has the first half computed before the second is entered,
\* which keeps the evaluation of a long loop shallow).
RECURSIVE ScanDets(_, _, _, _, _, _)
ScanDets(bbox, ds, used, lo, hi, best) ==
    IF lo > hi THEN best
    ELSE IF lo = hi THEN ScanDet(bbox, ds, used, best, lo)
    ELSE LET mid == (lo + hi) \div 2
             half == ScanDets(bbox, ds, used, lo, mid, best)
         IN  IF half = half THEN ScanDets(bbox, ds, used, mid + 1, hi, half) ELSE best

\* variant: the used set is ignored, a detection can be taken twice
BestDet_reuse(bbox, ds, used) ==
    ScanDets(bbox, ds, {}, 1, Len(ds), [j |-> 0, iou |-> FracZero])

BestDet(bbox, ds, used) ==
    ScanDets(bbox, ds, used, 1, Len(ds), [j |-> 0, iou |-> FracZero])

\* variant: an IoU equal to the threshold does not match
IsMatch_strict(best, thresh) == best.j # 0 /\ best.iou.n * 100 > thresh * best.iou.d

\* best_j != -1 and best_iou >= iou_thresh
IsMatch(best, thresh) == best.j # 0 /\ FracGeqPct(best.iou, thresh)

\* variant: the counted flag is not consulted
Confirms_recount(t) == t.hits >= CONFIRM_HITS

\* variant: confirmation one hit early
Confirms_early(t) == ~ t.counted /\ t.hits >= CONFIRM_HITS - 1

\* not counted and hits >= CONFIRM_HITS, tested after hits += 1
Confirms(t) == ~ t.counted /\ t.hits >= CONFIRM_HITS

\* the track after a match with detection box dbox in frame fidx
\* variant: a hit that does not follow a hit of the previous frame restarts the counter
UpdateTrack_consecutive(t, dbox, fidx) ==
    LET u == [t EXCEPT !.bbox = dbox, !.last_seen = fidx,
                       !.hits = IF t.last_seen = fidx - 1 THEN @ + 1 ELSE 1]
    IN  IF Confirms(u) THEN [u EXCEPT !.counted = TRUE] ELSE u

UpdateTrack(t, dbox, fidx) ==
    LET u == [t EXCEPT !.bbox = dbox, !.last_seen = fidx, !.hits = @ + 1]
    IN  IF Confirms(u) THEN [u EXCEPT !.counted = TRUE] ELSE u

NewTrack(id, dbox, fidx) ==
    [id |-> id, bbox |-> dbox, last_seen |-> fidx, hits |-> 1, counted |-> FALSE]

\* indices of the detections no track took, in list order
Unmatched(ds, used) ==
    SelectSeq([j \in 1..Len(ds) |-> j], LAMBDA j : j \notin used)

\* variant: next_track_id is not advanced between the new tracks of a frame
NewTracks_sameid(ds, used, first_id, fidx) ==
    LET um == Unmatched(ds, used)
    IN  [k \in 1..Len(um) |-> NewTrack(first_id, ds[um[k]].bbox, fidx)]

NewTracks(ds, used, first_id, fidx) ==
    LET um == Unmatched(ds, used)
    IN  [k \in 1..Len(um) |-> NewTrack(first_id + k - 1, ds[um[k]].bbox, fidx)]

\* variant: only the first detection of a class contributes
SumConf_head(ds) == IF ds = <<>> THEN 0 ELSE Head(ds).conf

\* accepted_conf_sum += d['conf'] over the detections lo..hi, walked as in ScanDets
RECURSIVE AddConf(_, _, _, _)
AddConf(ds, lo, hi, sum) ==
    IF lo > hi THEN sum
    ELSE IF lo = hi THEN sum + ds[lo].conf
    ELSE LET mid == (lo + hi) \div 2
             half == AddConf(ds, lo, mid, sum)
         IN  IF half = half THEN AddConf(ds, mid + 1, hi, half) ELSE sum

SumConf(ds) == AddConf(ds, 1, Len(ds), 0)

----------------------------------------------------------------------------
(* Lane assigner *)

\* lane_heights = [int(height * 0.33), int(height * 0.66)]
LaneHeights(h) == <<(h * 33) \div 100, (h * 66) \div 100>>

\* variant: the center and the boundaries are compared without truncation
LaneOf_exact(bbox, h) ==
    IF (bbox[2] + bbox[4]) * 100 < 2 * 33 * h THEN "Left Lane"
    ELSE IF (bbox[2] + bbox[4]) * 100 < 2 * 66 * h THEN "Middle Lane"
    ELSE "Right Lane"

LaneOf(bbox, h) ==
    LET center_y == (bbox[2] + bbox[4]) \div 2
    IN  IF center_y < LaneHeights(h)[1] THEN "Left Lane"
        ELSE IF center_y < LaneHeights(h)[2] THEN "Middle Lane"
        ELSE "Right Lane"

CountIn(tlist, lane, h) ==
    Cardinality({i \in DOMAIN tlist : LaneOf(tlist[i].bbox, h) = lane})

LaneStats(trk, h) ==
    [lane \in LaneSet |->
        [k \in VehicleTypeSet \cup {"total"} |->
            IF k = "total"
            THEN SumOver([v \in VehicleTypeSet |-> CountIn(trk[v], lane, h)], VehicleTypeSet)
            ELSE CountIn(trk[k], lane, h)]]

EmptyLaneStats == [lane \in LaneSet |-> [k \in VehicleTypeSet \cup {"total"} |-> 0]]

----------------------------------------------------------------------------
(* Density *)

Capacity == MAX_VEHICLES_PER_LANE * NUM_LANES

\* variant: the percentage is not capped at 100
DensityPct_uncapped(total) == [n |-> total * 100, d |-> MAX_VEHICLES_PER_LANE * NUM_LANES]

\* variant: the capacity of one lane instead of all lanes
DensityPct_perLane(total) ==
    [n |-> Min2(100 * MAX_VEHICLES_PER_LANE, total * 100), d |-> MAX_VEHICLES_PER_LANE]

\* min(100.0, (total / capacity) * 100.0), as a fraction over the capacity
DensityPct(total) == [n |-> Min2(100 * Capacity, total * 100), d |-> Capacity]

\* variant: one sample per tenth of the frame rate
SampleEvery_tenth(f) == Max2(1, f \div 10)

\* sample_every = max(1, fps // 5)
SampleEvery(f) == Max2(1, f \div 5)

----------------------------------------------------------------------------
(* Inputs: the videos and parameters a run is started with *)

MaxFrames == 4      \* longest video of the tracking runs
QuietTail == 4      \* frames a long video has beyond the track timeout
TwiceLen == 3       \* longest video that is processed twice
MaxCoord == 2       \* largest coordinate of the boxes given to _compute_iou alone
Burst == 3          \* busy frames at the start of a long video

Det(cls, conf, box) == [xyxy |-> box, cls |-> cls, conf |-> conf]
Singles(S) == {<<d>> : d \in S}
Pairs(S) == {<<a, b>> : a \in S, b \in S}

\* a video: for each frame, the lists the detector may return on it
Video(n, scene) == [i \in 1..n |-> scene]

BoxA == <<0, 0, 4, 4>>      \* left lane
BoxA2 == <<1, 0, 5, 4>>     \* IoU 12/20 with BoxA
BoxA3 == <<2, 2, 6, 6>>     \* IoU 4/28 with BoxA, 6/26 with BoxA2
BoxA4 == <<0, 1, 4, 5>>     \* IoU 12/20 with BoxA, as BoxA2
BoxB == <<6, 6, 10, 10>>    \* right lane, disjoint from the others
BoxT1 == <<0, 0, 3, 2>>     \* area 6
BoxT2 == <<0, 0, 7, 1>>     \* IoU 3/10 with BoxT1
BoxS == <<0, 0, 5, 1>>      \* area 5: exactly 5% of a 10 x 10 frame
BoxZ == <<5, 5, 5, 5>>      \* zero area

RunRec(src_ok, sink_ok, f, vid, cg, mc, it) ==
    [opens |-> src_ok, sink_opens |-> sink_ok, fps |-> f, width |-> 10,
     height |-> 10, video |-> vid, cg |-> cg, mc |-> mc, it |-> it]

\* one frame; every class id, confidence around both thresholds, area around 5%
RawUniverse ==
    {Det(c, p, b) : c \in {0, 2, 3, 5, 7}, p \in {59, 60, 74, 75}, b \in {BoxS, BoxT1, BoxZ}}
FilterScene ==
    {<<>>} \cup Singles(RawUniverse)
           \cup Pairs({Det(2, 60, BoxS), Det(3, 75, BoxS), Det(3, 75, BoxT1), Det(0, 75, BoxS)})
FilterRuns ==
    {RunRec(TRUE, TRUE, 25, Video(1, FilterScene), th[1], th[2], DefaultIouThresh) :
        th \in {<<DefaultConfGlobal, DefaultMotorcycleConf>>, <<75, 60>>}}

\* short videos of moving, appearing and disappearing vehicles
CarA == Det(2, 90, BoxA)
CarA2 == Det(2, 90, BoxA2)
CarA3 == Det(2, 90, BoxA3)
CarA4 == Det(2, 90, BoxA4)
CarB == Det(2, 75, BoxB)
CarT1 == Det(2, 90, BoxT1)
CarT2 == Det(2, 90, BoxT2)
CarZ == Det(2, 90, BoxZ)
BusA == Det(5, 60, BoxA)
MotoS == Det(3, 75, BoxS)

MoveScene == {<<>>, <<CarA>>, <<CarA2>>, <<CarA3>>, <<CarA, CarB>>, <<CarB, CarA2>>, <<CarA, CarA2>>}
MixScene == {<<>>, <<CarA, BusA>>, <<BusA>>, <<MotoS, CarZ>>, <<CarA3, CarA>>}
EdgeScene == {<<CarT1>>, <<CarT2>>, <<CarB>>, <<CarT2, CarB>>}

TrackRuns ==
    {RunRec(TRUE, TRUE, 10, Video(n, sc), DefaultConfGlobal, DefaultMotorcycleConf, DefaultIouThresh) :
        n \in 0..MaxFrames, sc \in {MoveScene, MixScene}}
    \cup
    {RunRec(TRUE, TRUE, 10, Video(n, EdgeScene), DefaultConfGlobal, DefaultMotorcycleConf, it) :
        n \in 1..MaxFrames, it \in {0, DefaultIouThresh, 60}}

\* long videos: a burst, a quiet stretch up to the timeout, and a tail
LongScene == {<<>>, <<CarA>>, <<CarA2, BusA>>}
LongVideo ==
    [i \in 1..(TRACK_TIMEOUT + QuietTail) |->
        IF i <= Burst \/ i > TRACK_TIMEOUT THEN LongScene ELSE {<<>>}]
LongRuns ==
    {RunRec(TRUE, TRUE, 240, LongVideo, DefaultConfGlobal, DefaultMotorcycleConf, DefaultIouThresh)}

\* static scenes: every frame shows the same cars, in any order
Perms(S) == {p \in [1..Cardinality(S) -> S] : \A i, j \in DOMAIN p : p[i] = p[j] => i = j}
StaticSets == {{}, {CarA}, {CarA, CarB}, {CarA, CarA3, CarB}, {CarZ}, {CarA, CarZ}}
StaticRuns ==
    {RunRec(TRUE, TRUE, 10, Video(n, Perms(S)), DefaultConfGlobal, DefaultMotorcycleConf, DefaultIouThresh) :
        n \in 1..MaxFrames, S \in StaticSets}

\* the source or the sink cannot be opened
FailRuns ==
    {RunRec(so[1], so[2], 10, Video(2, {<<CarA>>}), DefaultConfGlobal, DefaultMotorcycleConf, DefaultIouThresh) :
        so \in {<<FALSE, TRUE>>, <<TRUE, FALSE>>, <<FALSE, FALSE>>}}

\* frame rates on both sides of 10, video lengths that are no multiple of the
\* sampling period
SampleScene == {<<>>, <<CarA>>, <<CarA, CarB>>}
SampleRuns ==
    {RunRec(TRUE, TRUE, f, Video(n, SampleScene), DefaultConfGlobal, DefaultMotorcycleConf, DefaultIouThresh) :
        f \in {0, 7, 15}, n \in 1..(MaxFrames + 1)}

\* a frame with more vehicles than the capacity of the road
Crowd == [i \in 1..(MAX_VEHICLES_PER_LANE * NUM_LANES + 1) |-> CarB]
CrowdRuns ==
    {RunRec(TRUE, TRUE, 7, Video(n, {<<CarA>>, Crowd}), DefaultConfGlobal, DefaultMotorcycleConf, DefaultIouThresh) :
        n \in 1..2}

\* confidences around 0.55 under a lowered threshold
ConfScene ==
    {<<>>, <<Det(2, 50, BoxA)>>, <<Det(2, 60, BoxA)>>,
     <<Det(2, 54, BoxA), Det(2, 56, BoxB)>>, <<Det(2, 40, BoxA), Det(2, 50, BoxA), Det(2, 55, BoxB)>>}
ConfRuns ==
    {RunRec(TRUE, TRUE, 10, Video(2, ConfScene), 50, DefaultMotorcycleConf, DefaultIouThresh)}

\* two detections of equal IoU with the track of BoxA, in both orders
TieScene == {<<CarA>>, <<CarA2, CarA4>>, <<CarA4, CarA2>>}
TieRuns ==
    {RunRec(TRUE, TRUE, 10, Video(2, TieScene), DefaultConfGlobal, DefaultMotorcycleConf, DefaultIouThresh)}

\* boxes whose vertical center is on or next to a lane boundary, two heights
BoxL1 == <<0, 1, 2, 5>>     \* center 3
BoxL2 == <<0, 4, 2, 9>>     \* center 6.5
BoxL3 == <<0, 5, 2, 8>>     \* center 6.5
BoxL4 == <<4, 12, 8, 15>>   \* center 13.5
LaneScene ==
    {<<>>, <<Det(2, 90, BoxL1), Det(5, 90, BoxL2)>>, <<Det(7, 90, BoxL3)>>,
     <<Det(2, 90, BoxL4), Det(2, 90, BoxA)>>}
LaneRuns ==
    {[RunRec(TRUE, TRUE, 10, Video(2, LaneScene), DefaultConfGlobal, DefaultMotorcycleConf,
             DefaultIouThresh) EXCEPT !.height = h, !.width = 2 * h] : h \in {10, 20}}

Runs ==
    FilterRuns \cup TrackRuns \cup LongRuns \cup StaticRuns \cup FailRuns
        \cup SampleRuns \cup CrowdRuns \cup ConfRuns \cup TieRuns \cup LaneRuns

----------------------------------------------------------------------------
(* State machine *)

vtype == VehicleTypes[vi]
\* one pass of the greedy loop: the track at position i takes its best unused
\* detection or is left alone
AloneStep(g, ds, i, fidx) ==
    LET t == g.st.tracks[i]
        best == BestDet(t.bbox, ds, g.used)
    IN  IF IsMatch(best, iou_thresh)
        THEN [st |-> [g.st EXCEPT !.tracks[i] = UpdateTrack(t, ds[best.j].bbox, fidx),
                                  !.count = IF Confirms([t EXCEPT !.hits = @ + 1])
                                            THEN @ + 1 ELSE @],
              used |-> g.used \cup {best.j}]
        ELSE g

\* the greedy loop over one class's tracks lo..hi, walked as in ScanDets
RECURSIVE AloneGreedy(_, _, _, _, _)
AloneGreedy(g, ds, lo, hi, fidx) ==
    IF lo > hi THEN g
    ELSE IF lo = hi THEN AloneStep(g, ds, lo, fidx)
    ELSE LET mid == (lo + hi) \div 2
             half == AloneGreedy(g, ds, lo, mid, fidx)
         IN  IF half = half THEN AloneGreedy(half, ds, mid + 1, hi, fidx) ELSE g

\* one frame of one class's store, given only that class's accepted detections
AloneFrame(st, ds, fidx) ==
    LET kept == FreshTracks(st.tracks, fidx)
        g == AloneGreedy([st |-> [st EXCEPT !.tracks = kept], used |-> {}],
                         ds, 1, Len(kept), fidx)
        fresh == NewTracks(ds, g.used, g.st.next, fidx)
    IN  [g.st EXCEPT !.tracks = @ \o fresh, !.next = @ + Len(fresh)]

\* variant: every class step is handed the detections of class car
dets_car == detections_by_class["car"]

dets == detections_by_class[vtype]

NoDetections == [name \in VehicleTypeSet |-> <<>>]

\* the arguments of the call, drawn from the run family R
Arguments(R) ==
    /\ \E r \in R :
        /\ input = [opens |-> r.opens, sink_opens |-> r.sink_opens, fps |-> r.fps,
                    width |-> r.width, height |-> r.height, video |-> r.video]
        /\ conf_global = r.cg
        /\ motorcycle_conf = r.mc
        /\ iou_thresh = r.it

\* the locals of process_video before its first statement
FreshLocals ==
    /\ pc = "start"
    /\ error = "none"
    /\ results = NoResult
    /\ reads = 0
    /\ opens = [source |-> 0, sink |-> 0]
    /\ fps = 0 /\ width = 0 /\ height = 0
    /\ tracks = [name \in VehicleTypeSet |-> <<>>]
    /\ next_track_id = [name \in VehicleTypeSet |-> 1]
    /\ unique_counts = [name \in VehicleTypeSet |-> 0]
    /\ expired = [name \in VehicleTypeSet |-> {}]
    /\ max_total_concurrent = 0
    /\ density_series = <<>>
    /\ accepted_conf_sum = 0
    /\ accepted_conf_count = 0
    /\ frame_count = 0
    /\ frame_idx = 0
    /\ lane_stats = EmptyLaneStats
    /\ boxes = <<>>
    /\ frame_log = <<>>
    /\ alone = [name \in VehicleTypeSet |-> [tracks |-> <<>>, next |-> 1, count |-> 0]]
    /\ detections_by_class = NoDetections
    /\ total_this_frame = 0
    /\ vi = 1
    /\ ti = 1
    /\ used_det = {}

\* file names and paths: directory, stem and extension
Path(dir, stem, ext) == [dir |-> dir, stem |-> stem, ext |-> ext]

\* no path yet, no name yet
NoPath == Path("", "", "")
NoName == [stem |-> "", ext |-> ""]

\* os.path.basename
Basename(p) == [stem |-> p.stem, ext |-> p.ext]

\* str.lower() on the extensions the uploads carry
Lower(e) == CASE e = "MP4" -> "mp4" [] e = "MOV" -> "mov" [] OTHER -> e

\* if not output_path.endswith('.mp4'): output_path = output_path.rsplit('.', 1)[0] + '.mp4'
OutputPath(p) == IF p.ext = "mp4" THEN p ELSE [p EXCEPT !.ext = "mp4"]

\* process_video called directly, not by process_file
NoUpload == [stage |-> "none"]
DirectOutput == Path("results", "out", "mp4")
Direct == web = NoUpload /\ output_path = DirectOutput /\ sink_file = NoPath

NoCall == run = 1 /\ first = NoResult /\ iou_args = <<>> /\ iou_out = NoResult /\ Direct

Init == Arguments(Runs) /\ FreshLocals /\ NoCall

caller == <<input, conf_global, motorcycle_conf, iou_thresh, run, first, iou_args, iou_out, web>>
runParams == <<caller, output_path, sink_file>>
streamProps == <<fps, width, height>>
store == <<tracks, next_track_id, unique_counts, expired>>
aggregate == <<max_total_concurrent, density_series, accepted_conf_sum, accepted_conf_count>>
frameVars == <<boxes, frame_log, alone, detections_by_class, total_this_frame, vi, ti, used_det>>

\* cap = cv2.VideoCapture(input_path); raise IOError when it is not opened
OpenSource ==
    /\ pc = "start"
    /\ web.stage \in {"none", "processing"}
    /\ opens' = [opens EXCEPT !.source = @ + 1]
    /\ IF input.opens
       THEN /\ fps' = input.fps /\ width' = input.width /\ height' = input.height
            /\ pc' = "sink"
            /\ error' = error
       ELSE /\ pc' = "raised"
            /\ error' = "IOError"
            /\ UNCHANGED streamProps
    /\ UNCHANGED <<runParams, results, reads, store, aggregate, frame_count,
                   frame_idx, lane_stats, frameVars>>

\* variant: out.isOpened() is not tested
OpenSink_unchecked ==
    /\ pc = "sink"
    /\ opens' = [opens EXCEPT !.sink = @ + 1]
    /\ pc' = "loop"
    /\ output_path' = OutputPath(output_path)
    /\ sink_file' = OutputPath(output_path)
    /\ UNCHANGED <<caller, error, results, reads, streamProps, store, aggregate,
                   frame_count, frame_idx, lane_stats, frameVars>>

\* output_path is given the extension mp4; out = cv2.VideoWriter(output_path, ...);
\* raise IOError when it is not opened
OpenSink ==
    /\ pc = "sink"
    /\ opens' = [opens EXCEPT !.sink = @ + 1]
    /\ IF input.sink_opens
       THEN pc' = "loop" /\ error' = error /\ sink_file' = OutputPath(output_path)
       ELSE pc' = "raised" /\ error' = "IOError" /\ sink_file' = sink_file
    /\ output_path' = OutputPath(output_path)
    /\ UNCHANGED <<caller, results, reads, streamProps, store, aggregate,
                   frame_count, frame_idx, lane_stats, frameVars>>

\* ret, frame = cap.read() with ret true; the lane statistics are reset
ReadFrame ==
    /\ pc = "loop"
    /\ reads < Len(input.video)
    /\ reads' = reads + 1
    /\ lane_stats' = EmptyLaneStats
    /\ pc' = "detect"
    /\ UNCHANGED <<runParams, error, results, opens, streamProps, store, aggregate,
                   frame_count, frame_idx, frameVars>>

\* ret false: break, release the capture and the writer
StreamEnd ==
    /\ pc = "loop"
    /\ reads >= Len(input.video)
    /\ reads' = reads + 1
    /\ pc' = "release"
    /\ UNCHANGED <<runParams, error, results, opens, streamProps, store, aggregate,
                   frame_count, frame_idx, lane_stats, frameVars>>

\* results = model(frame, conf=conf_global) and the collation by class.
\* The detector returns one Results object per image, so the test
\* `results and len(results) > 0` holds on every frame; its box list may be
\* empty and may hold any class id, confidence and integer box.
Detect ==
    /\ pc = "detect"
    /\ \E out \in (IF run = 1 THEN input.video[reads] ELSE {first.log[reads]}) :
        /\ boxes' = out
        /\ frame_log' = Append(frame_log, out)
        /\ alone' = [name \in VehicleTypeSet |->
                        AloneFrame(alone[name],
                                   Collate(out, conf_global, motorcycle_conf, width * height)[name],
                                   frame_idx)]
        /\ detections_by_class' = Collate(out, conf_global, motorcycle_conf, width * height)
    /\ total_this_frame' = 0
    /\ vi' = 1
    /\ pc' = "age"
    /\ UNCHANGED <<runParams, error, results, reads, opens, streamProps, store,
                   aggregate, frame_count, frame_idx, lane_stats, ti, used_det>>

\* age out the stale tracks of the class
AgeOut ==
    /\ pc = "age"
    /\ tracks' = [tracks EXCEPT ![vtype] = FreshTracks(@, frame_idx)]
    /\ expired' = [expired EXCEPT ![vtype] =
                      @ \cup (Range(tracks[vtype]) \ Range(FreshTracks(tracks[vtype], frame_idx)))]
    /\ used_det' = {}
    /\ ti' = 1
    /\ pc' = "match"
    /\ UNCHANGED <<runParams, error, results, reads, opens, streamProps,
                   next_track_id, unique_counts, aggregate, frame_count, frame_idx,
                   lane_stats, boxes, frame_log, alone, detections_by_class,
                   total_this_frame, vi>>

\* one iteration of the greedy loop: track ti takes its best unused detection
MatchTrack ==
    /\ pc = "match"
    /\ ti <= Len(tracks[vtype])
    /\ LET t == tracks[vtype][ti]
           best == BestDet(t.bbox, dets, used_det)
       IN  IF IsMatch(best, iou_thresh)
           THEN /\ tracks' = [tracks EXCEPT ![vtype][ti] =
                                 UpdateTrack(t, dets[best.j].bbox, frame_idx)]
                /\ unique_counts' = [unique_counts EXCEPT ![vtype] =
                                 IF Confirms([t EXCEPT !.hits = @ + 1]) THEN @ + 1 ELSE @]
                /\ used_det' = used_det \cup {best.j}
           ELSE UNCHANGED <<tracks, unique_counts, used_det>>
    /\ ti' = ti + 1
    /\ UNCHANGED <<runParams, pc, error, results, reads, opens, streamProps,
                   next_track_id, expired, aggregate, frame_count, frame_idx,
                   lane_stats, boxes, frame_log, alone, detections_by_class,
                   total_this_frame, vi>>

\* the unmatched detections become tracks; the class's detections are added
\* to the frame total and to the confidence statistics; next class
CreateTracks ==
    /\ pc = "match"
    /\ ti > Len(tracks[vtype])
    /\ LET fresh == NewTracks(dets, used_det, next_track_id[vtype], frame_idx)
       IN  /\ tracks' = [tracks EXCEPT ![vtype] = @ \o fresh]
           /\ next_track_id' = [next_track_id EXCEPT ![vtype] = @ + Len(fresh)]
    /\ total_this_frame' = total_this_frame + Len(dets)
    /\ accepted_conf_sum' = accepted_conf_sum + SumConf(dets)
    /\ accepted_conf_count' = accepted_conf_count + Len(dets)
    /\ IF vi < Len(VehicleTypes)
       THEN vi' = vi + 1 /\ pc' = "age"
       ELSE vi' = vi /\ pc' = "overlay"
    /\ UNCHANGED <<runParams, error, results, reads, opens, streamProps,
                   unique_counts, expired, max_total_concurrent, density_series,
                   frame_count, frame_idx, lane_stats, boxes, frame_log, alone,
                   detections_by_class, ti,
                   used_det>>

\* lane statistics from the current tracks, concurrency maximum, density
\* sample, out.write(frame) and the frame counters
EndFrame ==
    /\ pc = "overlay"
    /\ lane_stats' = LaneStats(tracks, height)
    /\ max_total_concurrent' = Max2(max_total_concurrent, total_this_frame)
    /\ density_series' = IF frame_idx % SampleEvery(fps) = 0
                         THEN Append(density_series, DensityPct(total_this_frame))
                         ELSE density_series
    /\ frame_count' = frame_count + 1
    /\ frame_idx' = frame_idx + 1
    /\ pc' = "loop"
    /\ UNCHANGED <<runParams, error, results, reads, opens, streamProps, store,
                   accepted_conf_sum, accepted_conf_count, frameVars>>

\* raise ValueError("No frames were processed from the video")
RaiseEmpty ==
    /\ pc = "release"
    /\ frame_count = 0
    /\ error' = "ValueError"
    /\ pc' = "raised"
    /\ UNCHANGED <<runParams, results, reads, opens, streamProps, store, aggregate,
                   frame_count, frame_idx, lane_stats, frameVars>>

\* avg_conf as the fraction sum / count, 0.0 when nothing was accepted
AvgConf(sum, count) == IF count # 0 THEN [n |-> sum, d |-> count] ELSE FracZero

\* avg_conf < 0.55, the average being a fraction of hundredths
LowConfidence(avg) == avg.n < LowConfidenceBelow * avg.d

\* variant: every track ever created is reported as a vehicle
Summary_allTracks ==
    [total_vehicles |-> SumOver([c \in VehicleTypeSet |-> next_track_id[c] - 1], VehicleTypeSet),
     density |-> DensityPct(max_total_concurrent),
     vehicle_counts |-> [name \in VehicleTypeSet |-> unique_counts[name]],
     density_series |-> density_series,
     avg_confidence |-> AvgConf(accepted_conf_sum, accepted_conf_count),
     low_confidence |-> LowConfidence(AvgConf(accepted_conf_sum, accepted_conf_count))]

\* variant: the overall density is that of the last frame, not of the maximum
Summary_lastFrame ==
    [total_vehicles |-> SumOver(unique_counts, VehicleTypeSet),
     density |-> DensityPct(total_this_frame),
     vehicle_counts |-> [name \in VehicleTypeSet |-> unique_counts[name]],
     density_series |-> density_series,
     avg_confidence |-> AvgConf(accepted_conf_sum, accepted_conf_count),
     low_confidence |-> LowConfidence(AvgConf(accepted_conf_sum, accepted_conf_count))]

Summary ==
    [total_vehicles |-> SumOver(unique_counts, VehicleTypeSet),
     density |-> DensityPct(max_total_concurrent),
     vehicle_counts |-> [name \in VehicleTypeSet |-> unique_counts[name]],
     density_series |-> density_series,
     avg_confidence |-> AvgConf(accepted_conf_sum, accepted_conf_count),
     low_confidence |-> LowConfidence(AvgConf(accepted_conf_sum, accepted_conf_count))]

\* variant: the frame_count == 0 test is missing
Summarize_degenerate ==
    /\ pc = "release"
    /\ results' = Summary
    /\ pc' = "returned"
    /\ UNCHANGED <<runParams, error, reads, opens, streamProps, store, aggregate,
                   frame_count, frame_idx, lane_stats, frameVars>>

\* build and return the results record
Summarize ==
    /\ pc = "release"
    /\ frame_count # 0
    /\ results' = Summary
    /\ pc' = "returned"
    /\ UNCHANGED <<runParams, error, reads, opens, streamProps, store, aggregate,
                   frame_count, frame_idx, lane_stats, frameVars>>

\* the locals of a new call of process_video, with the given identity counters
Enter(ids) ==
    /\ pc' = "start"
    /\ error' = "none"
    /\ results' = NoResult
    /\ reads' = 0
    /\ opens' = [source |-> 0, sink |-> 0]
    /\ fps' = 0 /\ width' = 0 /\ height' = 0
    /\ tracks' = [name \in VehicleTypeSet |-> <<>>]
    /\ next_track_id' = ids
    /\ unique_counts' = [name \in VehicleTypeSet |-> 0]
    /\ expired' = [name \in VehicleTypeSet |-> {}]
    /\ max_total_concurrent' = 0
    /\ density_series' = <<>>
    /\ accepted_conf_sum' = 0
    /\ accepted_conf_count' = 0
    /\ frame_count' = 0
    /\ frame_idx' = 0
    /\ lane_stats' = EmptyLaneStats
    /\ boxes' = <<>>
    /\ frame_log' = <<>>
    /\ alone' = [name \in VehicleTypeSet |-> [tracks |-> <<>>, next |-> ids[name], count |-> 0]]
    /\ detections_by_class' = NoDetections
    /\ total_this_frame' = 0
    /\ vi' = 1
    /\ ti' = 1
    /\ used_det' = {}

\* variant: the identity counters outlive the call
CallAgain_keepIds ==
    /\ run = 1
    /\ pc \in {"returned", "raised"}
    /\ run' = 2
    /\ first' = [log |-> frame_log, results |-> results, error |-> error]
    /\ Enter(next_track_id)
    /\ UNCHANGED <<input, conf_global, motorcycle_conf, iou_thresh, iou_args, iou_out,
                   web, output_path, sink_file>>

\* process_video is called a second time on the same file with the same
\* parameters, and the detector answers as it did in the first call
CallAgain ==
    /\ run = 1
    /\ pc \in {"returned", "raised"}
    /\ run' = 2
    /\ first' = [log |-> frame_log, results |-> results, error |-> error]
    /\ Enter([name \in VehicleTypeSet |-> 1])
    /\ UNCHANGED <<input, conf_global, motorcycle_conf, iou_thresh, iou_args, iou_out,
                   web, output_path, sink_file>>

Next ==
    \/ OpenSource
    \/ OpenSink
    \/ ReadFrame
    \/ StreamEnd
    \/ Detect
    \/ AgeOut
    \/ MatchTrack
    \/ CreateTracks
    \/ EndFrame
    \/ RaiseEmpty
    \/ Summarize

Spec == Init /\ [][Next]_vars

\* two calls in a row, on the runs of at most TwiceLen frames
InitTwice ==
    /\ Arguments({r \in Runs : Len(r.video) <= TwiceLen})
    /\ FreshLocals /\ NoCall

NextTwice == Next \/ CallAgain

SpecTwice == InitTwice /\ [][NextTwice]_vars

\* _compute_iou on its own: every pair of boxes with coordinates in 0..MaxCoord,
\* degenerate and inverted boxes included
IouBoxes == {<<x1, y1, x2, y2>> : x1 \in 0..MaxCoord, y1 \in 0..MaxCoord,
                                  x2 \in 0..MaxCoord, y2 \in 0..MaxCoord}

InitIou ==
    /\ Arguments(TieRuns) /\ FreshLocals
    /\ run = 1 /\ first = NoResult /\ Direct
    /\ iou_args \in IouBoxes \X IouBoxes
    /\ iou_out = NoResult

CallIou ==
    /\ iou_args # <<>>
    /\ iou_out = NoResult
    /\ iou_out' = [ab |-> compute_iou(iou_args[1], iou_args[2]),
                   ba |-> compute_iou(iou_args[2], iou_args[1]),
                   aa |-> compute_iou(iou_args[1], iou_args[1])]
    /\ UNCHANGED <<input, conf_global, motorcycle_conf, iou_thresh, run, first, iou_args,
                   web, output_path, sink_file, pc, error, results, reads, opens, streamProps, store, aggregate,
                   frame_count, frame_idx, lane_stats, frameVars>>

NextIou == CallIou

SpecIou == InitIou /\ [][NextIou]_vars

\* process_file: an upload is received, checked, handed to process_video and,
\* when process_video returns, recorded. The uploads drawn are videos and
\* files that are refused; names are ASCII, which secure_filename keeps.
ALLOWED_EXTENSIONS == {"jpg", "jpeg", "png", "mp4", "avi", "mov"}
VideoExtensions == {"mp4", "avi", "mov"}
UploadExtensions == {"mp4", "MP4", "avi", "mov", "MOV", "exe", ""}

\* get_extension: the lowered text after the last dot, '' without a dot
get_extension(name) == Lower(name.ext)

\* generate_unique_filename, the uuid being "u"
generate_unique_filename(name) ==
    [stem |-> "u", ext |-> IF get_extension(name) # "" THEN get_extension(name) ELSE "jpg"]

\* the uploads are videos of at most this many frames
UploadLen == 2

InitUpload ==
    /\ Arguments({r \in Runs : Len(r.video) <= UploadLen} \cup FailRuns)
    /\ FreshLocals
    /\ run = 1 /\ first = NoResult /\ iou_args = <<>> /\ iou_out = NoResult
    /\ \E e \in UploadExtensions :
          web = [stage |-> "received", filename |-> [stem |-> "clip", ext |-> e],
                 result_path |-> NoPath, stored |-> NoName]
    /\ output_path = NoPath
    /\ sink_file = NoPath

\* validate_file_type fails: the request is answered with an error
RejectUpload ==
    /\ web.stage = "received"
    /\ get_extension(web.filename) \notin ALLOWED_EXTENSIONS
    /\ web' = [web EXCEPT !.stage = "rejected"]
    /\ UNCHANGED <<input, conf_global, motorcycle_conf, iou_thresh, run, first, iou_args,
                   iou_out, output_path, sink_file, pc, error, results, reads, opens,
                   streamProps, store, aggregate, frame_count, frame_idx, lane_stats,
                   frameVars>>

\* the upload is saved, result_path is result_<upload name> in RESULT_FOLDER,
\* and process_video is called with it
AcceptUpload ==
    /\ web.stage = "received"
    /\ get_extension(web.filename) \in VideoExtensions
    /\ LET upload_filename == generate_unique_filename(web.filename)
           result_path == Path("results", "result_" \o upload_filename.stem, upload_filename.ext)
       IN  /\ web' = [web EXCEPT !.stage = "processing", !.result_path = result_path]
           /\ output_path' = result_path
    /\ UNCHANGED <<input, conf_global, motorcycle_conf, iou_thresh, run, first, iou_args,
                   iou_out, sink_file, pc, error, results, reads, opens, streamProps,
                   store, aggregate, frame_count, frame_idx, lane_stats, frameVars>>

\* actual_result_filename = os.path.basename(result_path); the Analysis record is stored
SaveAnalysis ==
    /\ web.stage = "processing"
    /\ pc = "returned"
    /\ web' = [web EXCEPT !.stage = "saved", !.stored = Basename(web.result_path)]
    /\ UNCHANGED <<input, conf_global, motorcycle_conf, iou_thresh, run, first, iou_args,
                   iou_out, output_path, sink_file, pc, error, results, reads, opens,
                   streamProps, store, aggregate, frame_count, frame_idx, lane_stats,
                   frameVars>>

\* process_video raised: the upload is removed and an error is answered
FailUpload ==
    /\ web.stage = "processing"
    /\ pc = "raised"
    /\ web' = [web EXCEPT !.stage = "failed"]
    /\ UNCHANGED <<input, conf_global, motorcycle_conf, iou_thresh, run, first, iou_args,
                   iou_out, output_path, sink_file, pc, error, results, reads, opens,
                   streamProps, store, aggregate, frame_count, frame_idx, lane_stats,
                   frameVars>>

NextUpload == Next \/ RejectUpload \/ AcceptUpload \/ SaveAnalysis \/ FailUpload

SpecUpload == InitUpload /\ [][NextUpload]_vars

TypeOK ==
    /\ pc \in {"start", "sink", "loop", "detect", "age", "match", "overlay",
               "release", "returned", "raised"}
    /\ error \in {"none", "IOError", "ValueError"}
    /\ vi \in 1..Len(VehicleTypes)
    /\ \A v \in VehicleTypeSet : \A i \in DOMAIN tracks[v] : tracks[v][i].hits >= 1

----------------------------------------------------------------------------
(* Properties *)

Ids(tlist) == {tlist[i].id : i \in DOMAIN tlist}
MatchStep == pc = "match" /\ ti <= Len(tracks[vtype])
CreateStep == pc = "match" /\ ti > Len(tracks[vtype])

\* tracks of class c whose hits pass from below the threshold to the threshold in this step
NewlyConfirmed(c) ==
    {i \in DOMAIN tracks[c] :
        /\ tracks[c][i].hits < CONFIRM_HITS
        /\ \E k \in DOMAIN tracks'[c] :
              tracks'[c][k].id = tracks[c][i].id /\ tracks'[c][k].hits >= CONFIRM_HITS}

\* C1: in every step and for every class the unique count grows by exactly
\* the number of tracks (at most one) whose hits reach the confirmation
\* threshold in that step; so it never decreases, a later match of a counted
\* track and the expiry of a track leave it unchanged.
C1_UniqueCountOncePerTrack ==
    [][\A c \in VehicleTypeSet :
          /\ Cardinality(NewlyConfirmed(c)) <= 1
          /\ unique_counts'[c] = unique_counts[c] + Cardinality(NewlyConfirmed(c))]_vars

\* a counted track matched again after its confirmation, counted once
C1_Witness ==
    \E c \in VehicleTypeSet : \E i \in DOMAIN tracks[c] :
        /\ tracks[c][i].counted
        /\ tracks[c][i].hits > CONFIRM_HITS
        /\ next_track_id[c] = 2
        /\ unique_counts[c] = 1

\* C2: a track, live or expired, is counted iff it has at least 3 hits, and
\* the unique count of a class is the number of its tracks with 3 hits or more.
C2_CountedIffThreeHits ==
    \A c \in VehicleTypeSet :
        /\ \A i \in DOMAIN tracks[c] : tracks[c][i].counted <=> tracks[c][i].hits >= 3
        /\ \A e \in expired[c] : e.counted <=> e.hits >= 3
        /\ unique_counts[c] = Cardinality({i \in DOMAIN tracks[c] : tracks[c][i].hits >= 3})
                              + Cardinality({e \in expired[c] : e.hits >= 3})

\* a track with 3 hits, counted, next to a track with 2 hits, not counted
C2_Witness ==
    \E c \in VehicleTypeSet : \E i, j \in DOMAIN tracks[c] :
        /\ tracks[c][i].hits = 3 /\ tracks[c][i].counted
        /\ tracks[c][j].hits = 2 /\ ~ tracks[c][j].counted
        /\ unique_counts[c] = 1

C3_AgeStep ==
    pc = "age" =>
        /\ \A i \in DOMAIN tracks[vtype] :
              (frame_idx - tracks[vtype][i].last_seen > 30)
                  <=> (tracks[vtype][i].id \notin Ids(tracks'[vtype]))
        /\ \A k \in DOMAIN tracks'[vtype] : tracks'[vtype][k] \in Range(tracks[vtype])

C3_NewIdentity ==
    \A c \in VehicleTypeSet : \A k \in DOMAIN tracks'[c] :
        tracks'[c][k].id \notin Ids(tracks[c]) =>
            /\ tracks'[c][k].hits = 1
            /\ tracks'[c][k].id >= next_track_id[c]
            /\ \A e \in expired[c] : e.id < tracks'[c][k].id

C3_NoStaleTrack ==
    \A c \in VehicleTypeSet :
        /\ \A e \in expired[c] : e.id \notin Ids(tracks[c])
        /\ pc = "overlay" =>
              \A i \in DOMAIN tracks[c] : frame_idx - tracks[c][i].last_seen <= 30
        /\ (pc \in {"loop", "detect", "release", "returned"} /\ frame_count > 0) =>
              \A i \in DOMAIN tracks[c] : (frame_idx - 1) - tracks[c][i].last_seen <= 30

\* C3: the age step of a class removes exactly the tracks older than 30
\* frames (a track 30 frames old stays); a removed track never comes back: a
\* track that enters a store has hits 1 and an identity above every expired
\* one; after every frame no stored track is older than 30 frames.
C3_Aging == [][C3_AgeStep /\ C3_NewIdentity]_vars /\ []C3_NoStaleTrack

\* the box of an expired track is back, as a new track with a later identity
C3_Witness ==
    \E c \in VehicleTypeSet : \E e \in expired[c] : \E i \in DOMAIN tracks[c] :
        /\ tracks[c][i].bbox = e.bbox
        /\ tracks[c][i].hits = 1
        /\ tracks[c][i].id > e.id
        /\ tracks[c][i].last_seen - e.last_seen > TRACK_TIMEOUT

SeenNow(c) == Cardinality({i \in DOMAIN tracks[c] : tracks[c][i].last_seen = frame_idx})
ClassDone(k) == pc = "overlay" \/ (pc \in {"age", "match"} /\ k < vi)

C4_Consumed ==
    /\ \A k \in DOMAIN VehicleTypes :
          ClassDone(k) => SeenNow(VehicleTypes[k]) = Len(detections_by_class[VehicleTypes[k]])
    /\ pc = "match" =>
          /\ used_det \subseteq DOMAIN dets
          /\ Cardinality(used_det) = SeenNow(vtype)

C4_MatchStep ==
    /\ MatchStep =>
          /\ used_det \subseteq used_det'
          /\ Cardinality(used_det' \ used_det) <= 1
          /\ \A i \in DOMAIN tracks[vtype] : i # ti => tracks'[vtype][i] = tracks[vtype][i]
          /\ (tracks'[vtype][ti] # tracks[vtype][ti]) <=> (used_det' # used_det)
    /\ CreateStep =>
          Len(tracks'[vtype]) = Len(tracks[vtype]) + Len(dets) - Cardinality(used_det)

\* C4: a greedy step gives at most one detection, not used before, to its one
\* track; the create step adds one track per detection left; so once a class
\* is done in a frame its tracks seen in this frame are as many as its
\* accepted detections.
C4_EachDetectionOnce == []C4_Consumed /\ [][C4_MatchStep]_vars

\* two detections of a class: one taken by an older track, one a new track
C4_Witness ==
    /\ pc = "overlay"
    /\ \E c \in VehicleTypeSet : \E i, j \in DOMAIN tracks[c] :
        /\ Len(detections_by_class[c]) = 2
        /\ tracks[c][i].hits >= 2 /\ tracks[c][i].last_seen = frame_idx
        /\ tracks[c][j].hits = 1 /\ tracks[c][j].last_seen = frame_idx

Iou(t, j) == compute_iou(t.bbox, dets[j].bbox)
Unused == DOMAIN dets \ used_det

\* the effect of a greedy step on its track: matched with a detection of
\* highest IoU among the unused ones, or left alone
C5_Effect(matched) ==
    LET t == tracks[vtype][ti]
        u == tracks'[vtype][ti]
    IN  IF matched
        THEN /\ u.hits = t.hits + 1
             /\ u.last_seen = frame_idx
             /\ u.id = t.id
             /\ \E j \in Unused :
                   /\ u.bbox = dets[j].bbox
                   /\ used_det' = used_det \cup {j}
                   /\ \A k \in Unused : ~ FracGt(Iou(t, k), Iou(t, j))
        ELSE u = t /\ used_det' = used_det

\* C5 as stated: the track is matched iff an unused detection exists and the
\* highest IoU among the unused detections is >= the match threshold.
C5_AsStated ==
    [][MatchStep =>
          C5_Effect(\E j \in Unused : FracGeqPct(Iou(tracks[vtype][ti], j), iou_thresh))]_vars

\* C5: the track is matched iff some unused detection overlaps it (IoU > 0)
\* and the highest IoU among the unused detections is >= the match threshold;
\* a match sets the box to the detection's, last_seen to the frame index and
\* adds one hit; without a match the track is unchanged.
C5_MatchIffOverlapReachesThreshold ==
    [][MatchStep =>
          C5_Effect(\E j \in Unused :
                       /\ Iou(tracks[vtype][ti], j).n > 0
                       /\ FracGeqPct(Iou(tracks[vtype][ti], j), iou_thresh))]_vars

\* the greedy loop has left an earlier track unmatched and matched a later one
C5_Witness ==
    /\ CreateStep
    /\ \E i, k \in DOMAIN tracks[vtype] :
        /\ i < k
        /\ tracks[vtype][i].last_seen < frame_idx
        /\ tracks[vtype][k].last_seen = frame_idx
        /\ tracks[vtype][k].hits >= 2

ExpiredIds(c) == {e.id : e \in expired[c]}

C6_Ids ==
    \A c \in VehicleTypeSet :
        /\ \A i, j \in DOMAIN tracks[c] : i < j => tracks[c][i].id < tracks[c][j].id
        /\ \A id \in Ids(tracks[c]) \cup ExpiredIds(c) : id >= 1 /\ id < next_track_id[c]
        /\ Ids(tracks[c]) \cap ExpiredIds(c) = {}
        /\ Len(tracks[c]) + Cardinality(expired[c]) = next_track_id[c] - 1
        /\ Cardinality(Ids(tracks[c]) \cup ExpiredIds(c)) = next_track_id[c] - 1

\* the k-th detection, in list order, that no track took
KthUnused(k) == CHOOSE j \in Unused : Cardinality({i \in Unused : i < j}) = k - 1

C6_CreateStep ==
    /\ \A c \in VehicleTypeSet : next_track_id'[c] >= next_track_id[c]
    /\ CreateStep =>
          LET old == tracks[vtype]
              new == tracks'[vtype]
              n == Cardinality(Unused)
          IN  /\ Len(new) = Len(old) + n
              /\ SubSeq(new, 1, Len(old)) = old
              /\ next_track_id'[vtype] = next_track_id[vtype] + n
              /\ \A k \in 1..n :
                    /\ new[Len(old) + k].hits = 1
                    /\ new[Len(old) + k].counted = FALSE
                    /\ new[Len(old) + k].last_seen = frame_idx
                    /\ new[Len(old) + k].id = next_track_id[vtype] + k - 1
              /\ \A k \in 1..n :
                    new[Len(old) + k].bbox = dets[KthUnused(k)].bbox

\* C6: the create step appends one track per unused detection, in list order,
\* with hits 1, counted false, last_seen the frame index and the next ids of
\* the class; the ids of a class are increasing along the store, all distinct
\* over live and expired tracks, and below next_track_id, which never decreases.
C6_NewTracksSequentialIds == []C6_Ids /\ [][C6_CreateStep]_vars

\* after the expiry of a track, a new track takes the next id, not the expired one
C6_Witness ==
    \E c \in VehicleTypeSet : \E e \in expired[c] : \E i \in DOMAIN tracks[c] :
        /\ tracks[c][i].id = e.id + 1
        /\ tracks[c][i].hits = 1
        /\ tracks[c][i].last_seen = frame_idx
        /\ next_track_id[c] = e.id + 2

FilterClass(cls) ==
    CASE cls = 2 -> "car" [] cls = 3 -> "motorcycle" [] cls = 5 -> "bus"
      [] cls = 7 -> "truck" [] OTHER -> "dropped"

FilterKeeps(d) ==
    LET c == FilterClass(d.cls)
    IN  /\ c # "dropped"
        /\ d.conf >= (IF c = "motorcycle" THEN motorcycle_conf ELSE conf_global)
        /\ c = "motorcycle" =>
              (d.xyxy[3] - d.xyxy[1]) * (d.xyxy[4] - d.xyxy[2]) * 100 <= 5 * width * height

Kept(c) == SelectSeq(boxes, LAMBDA d : FilterKeeps(d) /\ FilterClass(d.cls) = c)

\* C7: once a frame's detections are collated, the bucket of each class holds,
\* in detector order, box and confidence of exactly the detections of that
\* class with confidence >= the class threshold and, for a motorcycle, area
\* <= 5% of the frame; everything else is dropped and no error is raised.
C7_FilterAccepts ==
    pc \in {"age", "match", "overlay"} =>
        /\ error = "none"
        /\ \A c \in VehicleTypeSet :
              detections_by_class[c] =
                  [i \in 1..Len(Kept(c)) |-> [bbox |-> Kept(c)[i].xyxy, conf |-> Kept(c)[i].conf]]

\* two motorcycles at exactly the threshold: area 5% is kept, a larger one dropped
C7_Witness ==
    /\ pc = "age"
    /\ Len(boxes) = 2
    /\ boxes[1].cls = 3 /\ boxes[1].conf = motorcycle_conf
    /\ boxes[2].cls = 3 /\ boxes[2].conf = motorcycle_conf
    /\ BoxArea(boxes[1].xyxy) * 100 = 5 * width * height
    /\ BoxArea(boxes[2].xyxy) * 100 > 5 * width * height
    /\ detections_by_class["motorcycle"] = <<[bbox |-> boxes[1].xyxy, conf |-> boxes[1].conf]>>

DefaultParams ==
    conf_global = 60 /\ motorcycle_conf = 75 /\ iou_thresh = 30

\* every frame of the video carries exactly the detections of list L, in some
\* order: accepted cars whose boxes have pairwise IoU below 0.3
StaticScene(L) ==
    /\ \A a, b \in DOMAIN L : a # b =>
          /\ L[a] # L[b]
          /\ compute_iou(L[a].xyxy, L[b].xyxy).n * 100 < 30 * compute_iou(L[a].xyxy, L[b].xyxy).d
    /\ \A a \in DOMAIN L : L[a].cls = 2 /\ L[a].conf >= 60
    /\ \A i \in DOMAIN input.video : \A out \in input.video[i] :
          Len(out) = Len(L) /\ Range(out) = Range(L)

PositiveBoxes(L) ==
    \A a \in DOMAIN L : L[a].xyxy[1] < L[a].xyxy[3] /\ L[a].xyxy[2] < L[a].xyxy[4]

StaticResult(k) ==
    /\ results.vehicle_counts["car"] = k
    /\ \A c \in VehicleTypeSet \ {"car"} : results.vehicle_counts[c] = 0
    /\ results.total_vehicles = k
    /\ results.density.n * 45 = results.density.d * Min2(100 * 45, 100 * k)

\* C8 as stated: a static scene of k cars over n >= 3 frames returns k cars.
C8_AsStated ==
    (pc = "returned" /\ DefaultParams /\ Len(input.video) >= 3) =>
        \A L \in input.video[1] : StaticScene(L) => StaticResult(Len(L))

\* C8: a static scene of k cars whose boxes have positive width and height,
\* over n >= 3 frames with default parameters, returns car count k, the other
\* counts 0, total k and density min(100, 100 k / 45), whatever the order of
\* the detections in each frame.
C8_StaticSceneCounts ==
    (pc = "returned" /\ DefaultParams /\ Len(input.video) >= 3) =>
        \A L \in input.video[1] : (StaticScene(L) /\ PositiveBoxes(L)) => StaticResult(Len(L))

\* a static scene of two cars, fed in both orders, has returned
C8_Witness ==
    /\ pc = "returned"
    /\ DefaultParams
    /\ Len(input.video) >= 3
    /\ Cardinality(input.video[1]) = 2
    /\ \E L \in input.video[1] : Len(L) = 2 /\ StaticScene(L) /\ PositiveBoxes(L)
    /\ results.vehicle_counts["car"] = 2

\* C9: a run whose source and sink open but whose source yields no frame
\* returns no result and ends raising ValueError, never IOError; ValueError
\* is raised only with zero frames processed.
C9_EmptyRunRaises ==
    /\ (input.opens /\ input.sink_opens /\ Len(input.video) = 0) =>
          /\ results = NoResult
          /\ pc \in {"start", "sink", "loop", "release", "raised"}
          /\ error \in {"none", "ValueError"}
          /\ pc = "raised" <=> error = "ValueError"
    /\ error = "ValueError" =>
          /\ pc = "raised"
          /\ frame_count = 0
          /\ results = NoResult

\* source and sink opened, the only read returned no frame, ValueError raised
C9_Witness ==
    /\ pc = "raised"
    /\ error = "ValueError"
    /\ opens = [source |-> 1, sink |-> 1]
    /\ reads = 1
    /\ results = NoResult

\* C10: when the source or the sink does not open, no frame is ever read or
\* tracked, no result is returned, the run ends raising IOError, and each of
\* the two is opened at most once (the sink not at all when the source failed).
C10_OpenFailureAborts ==
    /\ (~ input.opens \/ ~ input.sink_opens) =>
          /\ reads = 0 /\ frame_count = 0 /\ frame_idx = 0
          /\ results = NoResult
          /\ \A c \in VehicleTypeSet : tracks[c] = <<>> /\ unique_counts[c] = 0
          /\ density_series = <<>>
          /\ pc \in {"start", "sink", "raised"}
          /\ pc = "raised" <=> error = "IOError"
          /\ ~ input.opens => opens.sink = 0
    /\ opens.source <= 1 /\ opens.sink <= 1
    /\ error = "IOError" => pc = "raised" /\ reads = 0 /\ results = NoResult

\* the source opened, the sink did not: IOError after one attempt at each
C10_Witness ==
    /\ pc = "raised"
    /\ error = "IOError"
    /\ opens = [source |-> 1, sink |-> 1]
    /\ reads = 0

\* the accepted detections of one detector output, by the filter rule of C7
AcceptedCount(out) == Cardinality({i \in DOMAIN out : FilterKeeps(out[i])})

\* x is min(100, 100 * total / 45)
IsDensityOf(x, total) == x.n * 45 = x.d * Min2(100 * 45, 100 * total)

CeilDiv(a, b) == (a + b - 1) \div b

\* 1 when fps < 10, else fps // 5
SamplePeriod == IF input.fps < 10 THEN 1 ELSE input.fps \div 5

FramesDone == pc \in {"loop", "release", "returned"}

\* C11: after N complete frames the density timeline has ceil(N / sample_every)
\* entries, sample_every = max(1, fps // 5); entry k is min(100, 100 * total / 45)
\* for the accepted detections of frame (k - 1) * sample_every, and lies in
\* [0, 100]; the returned timeline is that of all N frames of the video.
C11_TimelineSamples ==
    /\ FramesDone =>
          /\ Len(density_series) = CeilDiv(frame_count, SamplePeriod)
          /\ \A k \in DOMAIN density_series :
                /\ IsDensityOf(density_series[k],
                               AcceptedCount(frame_log[(k - 1) * SamplePeriod + 1]))
                /\ density_series[k].n >= 0
                /\ density_series[k].n <= 100 * density_series[k].d
    /\ pc = "returned" =>
          /\ frame_count = Len(input.video)
          /\ results.density_series = density_series

\* 5 frames at 15 fps: two samples, frames 0 and 3, the second not empty
C11_Witness ==
    /\ pc = "returned"
    /\ input.fps = 15
    /\ Len(input.video) = 5
    /\ Len(results.density_series) = 2
    /\ results.density_series[2].n > 0
    /\ AcceptedCount(frame_log[4]) > 0

\* the largest number of accepted detections any frame read so far had
LargestFrame ==
    LET S == {AcceptedCount(frame_log[k]) : k \in DOMAIN frame_log}
    IN  IF S = {} THEN 0 ELSE CHOOSE m \in S : \A x \in S : x <= m

LiveTracks == SumOver([c \in VehicleTypeSet |-> Len(tracks[c])], VehicleTypeSet)

\* C12: when the four classes of a frame are done, total_this_frame is the
\* number of accepted detections of the frame; between frames the maximum is
\* the largest such number over the frames so far; the returned density is
\* min(100, 100 * maximum / 45).
C12_ConcurrencyAndDensity ==
    /\ pc = "overlay" =>
          /\ total_this_frame = AcceptedCount(boxes)
          /\ total_this_frame =
                SumOver([c \in VehicleTypeSet |-> Len(detections_by_class[c])], VehicleTypeSet)
    /\ FramesDone => max_total_concurrent = LargestFrame
    /\ pc = "returned" => IsDensityOf(results.density, LargestFrame)

\* more live tracks than any frame had detections: the density follows the detections
C12_Witness ==
    /\ pc = "returned"
    /\ max_total_concurrent >= 1
    /\ LiveTracks > max_total_concurrent
    /\ IsDensityOf(results.density, max_total_concurrent)

\* the tracks of class c, live or expired, that reached the confirmation threshold
EverConfirmed(c) ==
    {tracks[c][i].id : i \in {k \in DOMAIN tracks[c] : tracks[c][k].hits >= CONFIRM_HITS}}
        \cup {e.id : e \in {x \in expired[c] : x.hits >= CONFIRM_HITS}}

\* C13: the result of a run with at least one frame reports as total_vehicles
\* the sum of its four per-class counts, and each per-class count is the number
\* of tracks of the class, live or expired, that reached CONFIRM_HITS hits.
C13_TotalIsSumOfClassCounts ==
    pc = "returned" =>
        /\ frame_count >= 1
        /\ results.total_vehicles = SumOver(results.vehicle_counts, VehicleTypeSet)
        /\ \A c \in VehicleTypeSet :
              results.vehicle_counts[c] = Cardinality(EverConfirmed(c))

\* a confirmed track that expired, a confirmed live one, and an unconfirmed one
C13_Witness ==
    /\ pc = "returned"
    /\ results.total_vehicles >= 2
    /\ \E c \in VehicleTypeSet : \E e \in expired[c] : e.hits >= CONFIRM_HITS
    /\ \E c \in VehicleTypeSet : \E i \in DOMAIN tracks[c] : tracks[c][i].hits >= CONFIRM_HITS
    /\ \E c \in VehicleTypeSet : \E i \in DOMAIN tracks[c] : tracks[c][i].hits < CONFIRM_HITS

RECURSIVE KeptConf(_)
\* the confidences of the detections of one raw list that pass the filter
KeptConf(out) ==
    IF out = <<>> THEN 0
    ELSE (IF FilterKeeps(Head(out)) THEN Head(out).conf ELSE 0) + KeptConf(Tail(out))

RECURSIVE LogConf(_)
LogConf(log) == IF log = <<>> THEN 0 ELSE KeptConf(Head(log)) + LogConf(Tail(log))

RECURSIVE LogCount(_)
LogCount(log) == IF log = <<>> THEN 0 ELSE AcceptedCount(Head(log)) + LogCount(Tail(log))

\* C14: between frames the running sum and count are the confidences and the
\* number of the accepted detections of all frames read; the result's average
\* is sum / count, or 0 with no accepted detection, and low_confidence holds
\* exactly when the average is below 0.55.
C14_ConfidenceBookkeeping ==
    /\ FramesDone =>
          /\ accepted_conf_sum = LogConf(frame_log)
          /\ accepted_conf_count = LogCount(frame_log)
    /\ pc = "returned" =>
          /\ LogCount(frame_log) = 0 => results.avg_confidence.n = 0
          /\ LogCount(frame_log) > 0 =>
                results.avg_confidence.n * LogCount(frame_log) =
                    LogConf(frame_log) * results.avg_confidence.d
          /\ results.avg_confidence.d > 0
          /\ results.low_confidence <=>
                results.avg_confidence.n < LowConfidenceBelow * results.avg_confidence.d

\* an average of 0.525 over an accepted 0.50 and 0.55 of one frame, a 0.40 dropped
C14_Witness ==
    /\ pc = "returned"
    /\ results.low_confidence
    /\ accepted_conf_count = 2
    /\ accepted_conf_sum = 105
    /\ \E k \in DOMAIN frame_log : Len(frame_log[k]) > AcceptedCount(frame_log[k])

\* an average of exactly 0.55 is not low
C14_WitnessBoundary ==
    /\ pc = "returned"
    /\ ~ results.low_confidence
    /\ accepted_conf_count > 0
    /\ accepted_conf_sum = LowConfidenceBelow * accepted_conf_count

\* C15 as stated: a track is confirmed only by a hit in the frame that follows
\* the frame of its previous hit.
C15_AsStated ==
    [][\A c \in VehicleTypeSet : \A i \in NewlyConfirmed(c) :
          tracks[c][i].last_seen = frame_idx - 1]_vars

\* C15: hits counts the matches of a track since its creation: a step that
\* matches a live track adds one, whatever the number of frames since its
\* previous hit, and no other step changes it (a missed frame does not reset
\* it); the track is counted from its third hit on.
C15_HitsAreCumulative ==
    [][\A c \in VehicleTypeSet : \A i \in DOMAIN tracks[c] : \A k \in DOMAIN tracks'[c] :
          tracks'[c][k].id = tracks[c][i].id =>
              /\ tracks'[c][k].hits =
                    tracks[c][i].hits
                        + (IF tracks'[c][k].last_seen # tracks[c][i].last_seen THEN 1 ELSE 0)
              /\ tracks'[c][k].last_seen # tracks[c][i].last_seen =>
                    /\ tracks'[c][k].last_seen = frame_idx
                    /\ frame_idx - tracks[c][i].last_seen \in 1..TRACK_TIMEOUT
              /\ tracks'[c][k].counted <=> tracks'[c][k].hits >= CONFIRM_HITS]_vars

\* a car seen in frames 0, 2 and 4 only is confirmed in frame 4
C15_Witness ==
    /\ Len(frame_log) = 5
    /\ \A k \in 1..5 : AcceptedCount(frame_log[k]) = (IF k \in {1, 3, 5} THEN 1 ELSE 0)
    /\ next_track_id["car"] = 2
    /\ unique_counts["car"] = 1
    /\ \E i \in DOMAIN tracks["car"] :
          /\ tracks["car"][i].counted
          /\ tracks["car"][i].hits = CONFIRM_HITS
          /\ tracks["car"][i].last_seen = 4

\* IoU a is below IoU b
IouLess(a, b) == a.n * b.d < b.n * a.d

\* the store of every class lists its tracks in the order of their creation,
\* and the greedy loop has served exactly the tracks before position ti
C16_StoreOrder ==
    /\ \A c \in VehicleTypeSet : \A i, k \in DOMAIN tracks[c] :
          i < k => tracks[c][i].id < tracks[c][k].id
    /\ pc = "match" =>
          \A i \in DOMAIN tracks[vtype] :
              tracks[vtype][i].last_seen = frame_idx => i < ti

C16_GreedyStep ==
    /\ MatchStep =>
          /\ ti' = ti + 1
          /\ \A j \in used_det' \ used_det :
                /\ j \in Unused
                /\ tracks'[vtype][ti].bbox = dets[j].bbox
                /\ \A k \in Unused :
                      /\ ~ IouLess(Iou(tracks[vtype][ti], j), Iou(tracks[vtype][ti], k))
                      /\ k < j => IouLess(Iou(tracks[vtype][ti], k), Iou(tracks[vtype][ti], j))
    /\ pc = "age" =>
          \A i, k \in DOMAIN tracks'[vtype] :
              i < k => \E a, b \in DOMAIN tracks[vtype] :
                          a < b /\ tracks[vtype][a] = tracks'[vtype][i]
                                /\ tracks[vtype][b] = tracks'[vtype][k]

\* C16: stores keep insertion order through the age filter; the greedy loop
\* serves the tracks in that order; a served track takes, among the
\* detections not yet used, the first one of highest IoU; a used detection
\* is not given to a later track.
C16_GreedyInStoreOrder == []C16_StoreOrder /\ [][C16_GreedyStep]_vars

\* the first track (BoxA) has taken the only detection (BoxA2), which is the
\* very box of the second track, left unmatched
C16_Witness ==
    /\ pc = "match"
    /\ frame_idx = 1
    /\ frame_log[1] = <<CarA, CarA2>>
    /\ frame_log[2] = <<CarA2>>
    /\ ti = 3
    /\ used_det = {1}
    /\ tracks["car"][1].last_seen = 1 /\ tracks["car"][1].bbox = BoxA2
    /\ tracks["car"][2].last_seen = 0 /\ tracks["car"][2].bbox = BoxA2

\* of two detections of equal IoU with the track, the first of the list is taken
C16_WitnessTie ==
    /\ pc = "match"
    /\ frame_idx = 1
    /\ frame_log[1] = <<CarA>>
    /\ frame_log[2] = <<CarA4, CarA2>>
    /\ used_det = {1}
    /\ tracks["car"][1].bbox = BoxA4

C17_Stores ==
    /\ FramesDone =>
          \A c \in VehicleTypeSet :
              [tracks |-> tracks[c], next |-> next_track_id[c], count |-> unique_counts[c]]
                  = alone[c]
    /\ pc \in {"age", "match", "overlay"} =>
          \A c \in VehicleTypeSet : \A i \in DOMAIN tracks[c] :
              tracks[c][i].last_seen = frame_idx =>
                  \E j \in DOMAIN detections_by_class[c] :
                      tracks[c][i].bbox = detections_by_class[c][j].bbox

C17_ClassStep ==
    \A c \in VehicleTypeSet :
        (pc \in {"age", "match"} /\ c = vtype)
           \/ /\ tracks'[c] = tracks[c]
              /\ next_track_id'[c] = next_track_id[c]
              /\ unique_counts'[c] = unique_counts[c]

\* C17: only the step of class c changes class c's tracks, next id and unique
\* count; a track seen in this frame carries a box of its own class's
\* detections; after every frame the store of a class is what its own
\* accepted detections alone produce, whatever the other classes received.
C17_ClassesIndependent == []C17_Stores /\ [][C17_ClassStep]_vars

\* a bus detection on the very box of a car track: the bus track is matched,
\* the car track is not
C17_Witness ==
    /\ pc = "loop"
    /\ frame_log = <<(<<CarA, BusA>>), (<<BusA>>)>>
    /\ Len(tracks["car"]) = 1 /\ tracks["car"][1].hits = 1 /\ tracks["car"][1].bbox = BoxA
    /\ Len(tracks["bus"]) = 1 /\ tracks["bus"][1].hits = 2 /\ tracks["bus"][1].bbox = BoxA

AllZero(stats) == \A lane \in LaneSet : \A k \in VehicleTypeSet \cup {"total"} : stats[lane][k] = 0

LaneTotal == SumOver([lane \in LaneSet |-> lane_stats[lane]["total"]], LaneSet)

\* the lane counters are those of the live tracks, under the band rule Band(bbox)
LanesAre(Band(_)) ==
    \A lane \in LaneSet :
        /\ \A c \in VehicleTypeSet :
              lane_stats[lane][c] =
                  Cardinality({i \in DOMAIN tracks[c] : Band(tracks[c][i].bbox) = lane})
        /\ lane_stats[lane]["total"] =
              SumOver([c \in VehicleTypeSet |-> lane_stats[lane][c]], VehicleTypeSet)

\* band of a box: real center (y1 + y2) / 2 against height x 0.33 and height x 0.66
BandStated(bbox) ==
    IF (bbox[2] + bbox[4]) * 100 < 2 * 33 * height THEN Lanes[1]
    ELSE IF (bbox[2] + bbox[4]) * 100 < 2 * 66 * height THEN Lanes[2]
    ELSE Lanes[3]

\* band of a box: center and boundaries truncated to integers
BandTruncated(bbox) ==
    IF (bbox[2] + bbox[4]) \div 2 < (33 * height) \div 100 THEN Lanes[1]
    ELSE IF (bbox[2] + bbox[4]) \div 2 < (66 * height) \div 100 THEN Lanes[2]
    ELSE Lanes[3]

\* C19 as stated: after a frame the lane counters follow the untruncated rule.
C19_AsStated == (FramesDone /\ frame_count >= 1) => LanesAre(BandStated)

C19_Frame ==
    /\ pc \in {"detect", "age", "match", "overlay"} => AllZero(lane_stats)
    /\ (FramesDone /\ frame_count >= 1) =>
          /\ LanesAre(BandTruncated)
          /\ LaneTotal = LiveTracks

\* C19: the lane counters are zero while a frame is processed; after the
\* frame every live track, matched in it or not, is in exactly one band's
\* class counter and total, the band given by floor((y1 + y2) / 2) against
\* the boundaries int(height x 0.33) and int(height x 0.66); the three totals
\* sum to the number of live tracks.
C19_LaneAssignment ==
    []C19_Frame /\ [][pc = "loop" /\ pc' = "detect" => AllZero(lane_stats')]_vars

\* a track whose center 3 is below 3.3 but not below int(3.3) is in the middle
\* band, next to a track that the last frame did not match
C19_Witness ==
    /\ pc = "loop"
    /\ height = 10
    /\ LiveTracks >= 2
    /\ LaneTotal = LiveTracks
    /\ \E i \in DOMAIN tracks["car"] :
          /\ tracks["car"][i].bbox = BoxL1
          /\ tracks["car"][i].last_seen < frame_idx - 1
    /\ lane_stats["Middle Lane"]["car"] = 1
    /\ lane_stats["Left Lane"]["total"] = 0
    /\ \E c \in VehicleTypeSet : \E i \in DOMAIN tracks[c] : tracks[c][i].last_seen = frame_idx - 1

BoxW(b) == b[3] - b[1]
BoxH(b) == b[4] - b[2]
Positive(b) == BoxW(b) > 0 /\ BoxH(b) > 0

\* the boxes share no region of positive width and height
Apart(a, b) ==
    \/ \A x \in 0..MaxCoord : ~ (a[1] <= x /\ x + 1 <= a[3] /\ b[1] <= x /\ x + 1 <= b[3])
    \/ \A y \in 0..MaxCoord : ~ (a[2] <= y /\ y + 1 <= a[4] /\ b[2] <= y /\ y + 1 <= b[4])

\* C20: _compute_iou(a, b) = _compute_iou(b, a); _compute_iou(a, a) = 1 for a
\* box of positive width and height; the result is 0 when the boxes do not
\* overlap and when neither has a positive area (union 0); it is within [0, 1].
C20_IouProperties ==
    iou_out # NoResult =>
        LET a == iou_args[1]
            b == iou_args[2]
        IN  /\ iou_out.ab.n * iou_out.ba.d = iou_out.ba.n * iou_out.ab.d
            /\ Positive(a) => iou_out.aa.n = iou_out.aa.d
            /\ Apart(a, b) => iou_out.ab.n = 0
            /\ (~ Positive(a) /\ ~ Positive(b)) => iou_out.ab.n = 0
            /\ iou_out.ab.d > 0
            /\ iou_out.ab.n >= 0
            /\ iou_out.ab.n <= iou_out.ab.d

\* two different boxes of positive area that overlap in part: IoU 1/3
C20_Witness ==
    /\ iou_out # NoResult
    /\ iou_args = <<(<<0, 0, 2, 1>>), (<<1, 0, 2, 2>>)>>
    /\ iou_out.ab.n * 3 = iou_out.ab.d
    /\ iou_out.ab.n > 0
    /\ iou_out.aa.n = iou_out.aa.d

\* fraction a is at most fraction b
FracLeq(a, b) == a.n * b.d <= b.n * a.d

\* C21: once a frame is done the timeline is non-empty and none of its
\* entries exceeds the density of the concurrency maximum; the result of a
\* completed run has a non-empty timeline whose entries are all at most its
\* overall density.
C21_SamplesBelowOverall ==
    /\ (FramesDone /\ frame_count >= 1) =>
          /\ Len(density_series) >= 1
          /\ \A k \in DOMAIN density_series :
                FracLeq(density_series[k], DensityPct(max_total_concurrent))
    /\ pc = "returned" =>
          /\ Len(results.density_series) >= 1
          /\ \A k \in DOMAIN results.density_series :
                FracLeq(results.density_series[k], results.density)

\* the busiest frame is not the last: one sample equals the overall density,
\* a later one is below it
C21_Witness ==
    /\ pc = "returned"
    /\ Len(results.density_series) >= 2
    /\ results.density.n > 0
    /\ results.density_series[1] = results.density
    /\ results.density_series[Len(results.density_series)].n < results.density.n
    /\ total_this_frame < max_total_concurrent

DefaultThresholds ==
    conf_global = DefaultConfGlobal /\ motorcycle_conf = DefaultMotorcycleConf

\* C22: under the default thresholds the result of a completed run is flagged
\* low_confidence exactly when no detection of any frame was accepted; with
\* an accepted detection the average is at least 0.6.
C22_LowConfidenceIffNothingAccepted ==
    (pc = "returned" /\ DefaultThresholds) =>
        /\ results.low_confidence <=> LogCount(frame_log) = 0
        /\ LogCount(frame_log) > 0 =>
              results.avg_confidence.n >= DefaultConfGlobal * results.avg_confidence.d
        /\ LogCount(frame_log) = 0 => results.avg_confidence.n = 0

\* a run whose only detection, of confidence 0.59, was dropped: flagged
C22_Witness ==
    /\ pc = "returned"
    /\ DefaultThresholds
    /\ results.low_confidence
    /\ \E k \in DOMAIN frame_log : \E i \in DOMAIN frame_log[k] :
          frame_log[k][i].cls = 2 /\ frame_log[k][i].conf = 59

\* a run with an accepted detection of confidence exactly 0.6: not flagged
C22_WitnessAccepted ==
    /\ pc = "returned"
    /\ DefaultThresholds
    /\ ~ results.low_confidence
    /\ accepted_conf_count >= 1
    /\ accepted_conf_sum = DefaultConfGlobal * accepted_conf_count

\* C23: the result name stored for a video upload that was
\* processed is the name of the file the frame sink wrote.
C23_StoredNameIsWrittenFile ==
    web.stage = "saved" => web.stored = Basename(sink_file)

\* an avi upload was processed: the record names result_u.avi, the sink wrote result_u.mp4
C23_Witness ==
    /\ web.stage = "saved"
    /\ web.filename.ext = "avi"
    /\ web.stored = [stem |-> "result_u", ext |-> "avi"]
    /\ sink_file = Path("results", "result_u", "mp4")
    /\ results.density_series # <<>>

====
